---- MODULE Spec2Model ----
(***************************************************************************)
(* Model of the merge-conflict helper scripts                              *)
(*   .github/workflows/scripts/resolve-merge-conflicts.py                  *)
(*   .github/workflows/scripts/resolve_merge_conflicts.py                  *)
(*                                                                         *)
(* Text is a sequence of symbols.  Every literal the code matches on       *)
(* ('*** Begin Patch', '@@', '<<<<<<<', '+', ...) is one symbol, so that   *)
(* startswith, lstrip, re.search, splitlines, readlines and str.replace    *)
(* are computed on sequences the way Python computes them on characters.   *)
(* A path is the sequence <<stem, suffix_1, ..., suffix_n>> of its final    *)
(* component.  The file system maps a path to an entry.                    *)
(***************************************************************************)
EXTENDS Integers, Sequences, FiniteSets, TLC

\* ------------------------------------------------------------ symbols
LF == "LF"
SP == " "
TokBegin == "*** Begin Patch"
TokDelete == "*** Delete File: "
TokUpdate == "*** Update File: "
TokHunk == "@@"
TokEnd == "*** End Patch"
TokStart == "<<<<<<<"
TokStop == ">>>>>>>"
TokPlus == "+"
TokMinus == "-"

\* ------------------------------------------------------------ Python text operations
\* str.startswith
StartsWith(s, p) == Len(p) <= Len(s) /\ SubSeq(s, 1, Len(p)) = p

\* characters str.strip and str.lstrip remove
IsSpace(c) == c \in {SP, LF}

\* str.lstrip()
RECURSIVE LStrip(_)
LStrip(s) == IF s # <<>> /\ IsSpace(Head(s)) THEN LStrip(Tail(s)) ELSE s

\* str.rstrip()
RECURSIVE RStrip(_)
RStrip(s) ==
    IF s # <<>> /\ IsSpace(s[Len(s)]) THEN RStrip(SubSeq(s, 1, Len(s) - 1)) ELSE s

\* str.strip()
Strip(s) == RStrip(LStrip(s))

\* str.find(p) + 1: the first position at which p occurs in s, 0 when none
Find(s, p) ==
    LET hits == {i \in 1..(Len(s) - Len(p) + 1) : SubSeq(s, i, i + Len(p) - 1) = p}
    IN  IF hits = {} THEN 0 ELSE CHOOSE i \in hits : \A j \in hits : i <= j

\* p in s
Contains(s, p) == Find(s, p) # 0

\* r.join(list(s)) with r before, between and after: "ab".replace("", "X") = "XaXbX"
RECURSIVE Interleave(_, _)
Interleave(s, r) == IF s = <<>> THEN r ELSE r \o <<Head(s)>> \o Interleave(Tail(s), r)

\* str.replace(o, r, 1): only the first occurrence is replaced
StrReplaceFirst(s, o, r) ==
    IF o = <<>> THEN r \o s
    ELSE LET i == Find(s, o)
         IN  IF i = 0 THEN s
             ELSE SubSeq(s, 1, i - 1) \o r \o SubSeq(s, i + Len(o), Len(s))

\* str.replace(o, r): leftmost non-overlapping occurrences, the result is not rescanned
RECURSIVE StrReplace(_, _, _)
StrReplace(s, o, r) ==
    IF o = <<>> THEN Interleave(s, r)
    ELSE LET i == Find(s, o)
         IN  IF i = 0 THEN s
             ELSE SubSeq(s, 1, i - 1) \o r
                    \o StrReplace(SubSeq(s, i + Len(o), Len(s)), o, r)

\* str.splitlines(): the lines without their terminators
RECURSIVE SplitLines(_)
SplitLines(s) ==
    IF s = <<>> THEN <<>>
    ELSE LET i == Find(s, <<LF>>)
         IN  IF i = 0 THEN <<s>>
             ELSE <<SubSeq(s, 1, i - 1)>> \o SplitLines(SubSeq(s, i + 1, Len(s)))

\* file.readlines(): the lines with their terminators
RECURSIVE ReadLines(_)
ReadLines(s) ==
    IF s = <<>> THEN <<>>
    ELSE LET i == Find(s, <<LF>>)
         IN  IF i = 0 THEN <<s>>
             ELSE <<SubSeq(s, 1, i)>> \o ReadLines(SubSeq(s, i + 1, Len(s)))

\* file.writelines(lines): the concatenation
RECURSIVE WriteLines(_)
WriteLines(lines) ==
    IF lines = <<>> THEN <<>> ELSE Head(lines) \o WriteLines(Tail(lines))

\* ------------------------------------------------------------ pseudo-patch parsing
\* re.search(r'\*\*\* <directive> File: (.+)', patch) is not None: the directive
\* followed by at least one character that is not a line break
DirectiveMatch(patch, directive) ==
    \E i \in 1..(Len(patch) - 1) : patch[i] = directive /\ patch[i + 1] # LF

\* re.search(r'@@[\s\S]*?\*\*\* End Patch', patch): from the first '@@' that has an
\* end sentinel after it to the first such sentinel; <<>> when there is no match
DiffBlockOf(patch) ==
    LET ends(i) == {j \in (i + 1)..Len(patch) : patch[j] = TokEnd}
        starts == {i \in 1..Len(patch) : patch[i] = TokHunk /\ ends(i) # {}}
    IN  IF starts = {} THEN <<>>
        ELSE LET i == CHOOSE k \in starts : \A m \in starts : k <= m
                 j == CHOOSE k \in ends(i) : \A m \in ends(i) : k <= m
             IN  SubSeq(patch, i, j)

\* any('-<<<<<<<' in l for l in diff_lines): the token anywhere in a line
HasConflictRemovalAnywhere(diff_lines) ==
    \E k \in 1..Len(diff_lines) : Contains(diff_lines[k], <<TokMinus, TokStart>>)

\* any(l.startswith('-<<<<<<<') for l in diff_lines)
HasConflictRemoval(diff_lines) ==
    \E k \in 1..Len(diff_lines) : StartsWith(diff_lines[k], <<TokMinus, TokStart>>)

\* [l[1:] + '\n' for l in diff_lines if l.startswith('+')]
RECURSIVE PlusLines(_)
PlusLines(diff_lines) ==
    IF diff_lines = <<>> THEN <<>>
    ELSE IF StartsWith(Head(diff_lines), <<TokPlus>>)
         THEN <<Tail(Head(diff_lines)) \o <<LF>>>> \o PlusLines(Tail(diff_lines))
         ELSE PlusLines(Tail(diff_lines))

\* line.lstrip().startswith('<<<<<<<')
IsStartLine(line) == StartsWith(LStrip(line), <<TokStart>>)

\* file_lines[i].lstrip().startswith('>>>>>>>')
IsStopLine(line) == StartsWith(LStrip(line), <<TokStop>>)

\* the inner while loop without the 'i += 1' after it: the stop line is kept
RECURSIVE SkipConflictKeepStop(_, _)
SkipConflictKeepStop(file_lines, i) ==
    IF i <= Len(file_lines) /\ ~IsStopLine(file_lines[i])
    THEN SkipConflictKeepStop(file_lines, i + 1)
    ELSE i

\* the inner while loop and the 'i += 1' after it: the index after the first stop
\* line at or after i, Len + 2 when there is none
RECURSIVE SkipConflict(_, _)
SkipConflict(file_lines, i) ==
    IF i <= Len(file_lines) /\ ~IsStopLine(file_lines[i])
    THEN SkipConflict(file_lines, i + 1)
    ELSE i + 1

\* the outer while loop from index i on: what it appends to new_file_lines
RECURSIVE SpliceFrom(_, _, _)
SpliceFrom(file_lines, diff_lines, i) ==
    IF i > Len(file_lines) THEN <<>>
    ELSE IF HasConflictRemoval(diff_lines) /\ IsStartLine(file_lines[i])
         THEN PlusLines(diff_lines)
                \o SpliceFrom(file_lines, diff_lines, SkipConflict(file_lines, i))
         ELSE <<file_lines[i]>> \o SpliceFrom(file_lines, diff_lines, i + 1)

\* new_file_lines of the pseudo-patch update
Splice(file_lines, diff_lines) == SpliceFrom(file_lines, diff_lines, 1)

\* ------------------------------------------------------------ paths and the file system
\* Path(path).with_suffix(suffix): the last suffix, when there is one, replaced
WithSuffix(path, suffix) ==
    IF Len(path) > 1 THEN SubSeq(path, 1, Len(path) - 1) \o <<suffix>>
    ELSE path \o <<suffix>>

EmptyPath == <<>>
TxtPath == <<"t", ".txt">>
PatchPath == <<"t", ".patch">>
DirPath == <<"d">>

\* the paths the operations are called with
Paths == {EmptyPath, TxtPath, PatchPath, DirPath}

\* the paths of the file system: the targets and their sidecars
AllPaths == Paths \cup {WithSuffix(p, ".patch") : p \in Paths \ {EmptyPath}}

Absent == [kind |-> "absent", text |-> <<>>]
Dir == [kind |-> "dir", text |-> <<>>]
File(text) == [kind |-> "file", text |-> text]

\* what 'git show HEAD:<path>' prints: the committed snapshot
HeadText == <<"h", LF>>
HeadTree == [p \in AllPaths |-> IF p = TxtPath THEN File(HeadText) ELSE Absent]

\* what a successful 'git apply' leaves in the target
AppliedText == <<"g", LF>>

\* ------------------------------------------------------------ results
NoEffect == [wrote |-> {}, unlinked |-> {}, opened |-> {}]

\* a call that ends in 'return'
Return(f, b, s, failed, eff) ==
    [fs |-> f, retb |-> b, rets |-> s, raised |-> FALSE, failed |-> failed, eff |-> eff]

\* the try blocks with os.remove and unlink left outside them
TryStepsWithoutRemove(fn) ==
    CASE fn = "read_current_file" -> {"open_r", "read"}
      [] fn = "read_head_file" -> {"run"}
      [] fn = "delete_file" -> {}
      [] fn = "replace_in_file" -> {"open_r", "read", "open_w", "write"}
      [] fn = "apply_git_patch" -> {"open_r", "read", "open_w", "write", "with_suffix", "run"}

\* the fallible steps each function runs inside a try block
TrySteps(fn) ==
    CASE fn = "read_current_file" -> {"open_r", "read"}
      [] fn = "read_head_file" -> {"run"}
      [] fn = "delete_file" -> {"remove"}
      [] fn = "replace_in_file" -> {"open_r", "read", "open_w", "write"}
      [] fn = "apply_git_patch" ->
            {"remove", "open_r", "read", "open_w", "write", "with_suffix", "run"}

\* a step of fn raises: 'except Exception' returns the sentinel ("" or False) when
\* the step is inside the try block, and the exception propagates otherwise
Raise(fn, step, f, eff) ==
    IF step \in TrySteps(fn)
    THEN Return(f, FALSE, <<>>, TRUE, eff)
    ELSE [fs |-> f, retb |-> FALSE, rets |-> <<>>, raised |-> TRUE, failed |-> TRUE,
          eff |-> eff]

\* ------------------------------------------------------------ the functions
\* A call is given the file system f, its arguments, and the environment's part:
\* fault names the step that fails for a reason the file system does not show
\* (permissions, a full disk, an undecodable byte, no git executable), "none" when
\* no step does; status is the exit status of the external command.

\* read_current_file(path)
read_current_file(f, path, fault) ==
    IF f[path].kind # "file" \/ fault = "open_r"
    THEN Raise("read_current_file", "open_r", f, NoEffect)
    ELSE IF fault = "read"
         THEN Raise("read_current_file", "read", f, [NoEffect EXCEPT !.opened = {path}])
         ELSE Return(f, FALSE, f[path].text, FALSE, [NoEffect EXCEPT !.opened = {path}])

\* read_head_file(path): subprocess.run(..., check=True) raises when git cannot be
\* run and when it exits non-zero, as it does for a path HEAD does not hold
read_head_file(f, path, fault, status) ==
    IF fault = "run" \/ status # 0 \/ HeadTree[path].kind # "file"
    THEN Raise("read_head_file", "run", f, NoEffect)
    ELSE Return(f, FALSE, HeadTree[path].text, FALSE, NoEffect)

\* delete_file with exists() in place of is_file(): a directory is removed too
DeleteAnyEntry(f, path, fault) ==
    IF f[path].kind # "absent"
    THEN IF fault = "remove"
         THEN Raise("delete_file", "remove", f, NoEffect)
         ELSE Return([f EXCEPT ![path] = Absent], TRUE, <<>>, FALSE,
                     [NoEffect EXCEPT !.unlinked = {path}])
    ELSE Return(f, FALSE, <<>>, FALSE, NoEffect)

\* delete_file(path): Path.is_file() answers False instead of raising
delete_file(f, path, fault) ==
    IF f[path].kind = "file"
    THEN IF fault = "remove"
         THEN Raise("delete_file", "remove", f, NoEffect)
         ELSE Return([f EXCEPT ![path] = Absent], TRUE, <<>>, FALSE,
                     [NoEffect EXCEPT !.unlinked = {path}])
    ELSE Return(f, FALSE, <<>>, FALSE, NoEffect)

\* open(path, 'w') and the write that follows, with what is written: open truncates
\* the file, so a write that fails leaves it empty
WriteFile(fn, f, path, text, fault, eff) ==
    IF f[path].kind = "dir" \/ fault = "open_w"
    THEN Raise(fn, "open_w", f, eff)
    ELSE IF fault = "write"
         THEN Raise(fn, "write", [f EXCEPT ![path] = File(<<>>)],
                    [eff EXCEPT !.wrote = @ \cup {path}])
         ELSE Return([f EXCEPT ![path] = File(text)], TRUE, <<>>, FALSE,
                     [eff EXCEPT !.wrote = @ \cup {path}])

\* replace_in_file(path, original, replacement)
replace_in_file(f, path, original, replacement, fault) ==
    IF f[path].kind # "file" \/ fault = "open_r"
    THEN Raise("replace_in_file", "open_r", f, NoEffect)
    ELSE LET eff == [NoEffect EXCEPT !.opened = {path}]
             content == f[path].text
         IN  IF fault = "read" THEN Raise("replace_in_file", "read", f, eff)
             ELSE IF ~Contains(content, original)
                  THEN Return(f, FALSE, <<>>, FALSE, eff)
                  ELSE WriteFile("replace_in_file", f, path,
                                 StrReplace(content, original, replacement), fault, eff)

\* apply_git_patch, '*** Delete File:' branch: os.remove(path)
PseudoDelete(f, path, fault) ==
    IF f[path].kind # "file" \/ fault = "remove"
    THEN Raise("apply_git_patch", "remove", f, NoEffect)
    ELSE Return([f EXCEPT ![path] = Absent], TRUE, <<>>, FALSE,
                [NoEffect EXCEPT !.unlinked = {path}])

\* apply_git_patch, '*** Update File:' branch
PseudoUpdate(f, path, patch, fault) ==
    LET diff_block == DiffBlockOf(patch)
        diff_lines == SplitLines(diff_block)
        eff == [NoEffect EXCEPT !.opened = {path}]
    IN  IF diff_block = <<>> THEN Return(f, FALSE, <<>>, FALSE, NoEffect)
        ELSE IF f[path].kind # "file" \/ fault = "open_r"
             THEN Raise("apply_git_patch", "open_r", f, NoEffect)
             ELSE IF fault = "read" THEN Raise("apply_git_patch", "read", f, eff)
                  ELSE WriteFile("apply_git_patch", f, path,
                                 WriteLines(Splice(ReadLines(f[path].text), diff_lines)),
                                 fault, eff)

\* the pseudo-patch branch with the update directive looked for first
PseudoPatchUpdateFirst(f, path, patch, fault) ==
    IF DirectiveMatch(patch, TokUpdate) THEN PseudoUpdate(f, path, patch, fault)
    ELSE IF DirectiveMatch(patch, TokDelete) THEN PseudoDelete(f, path, fault)
         ELSE Return(f, FALSE, <<>>, FALSE, NoEffect)

\* apply_git_patch, pseudo-patch branch: the delete directive is looked for first
PseudoPatch(f, path, patch, fault) ==
    IF DirectiveMatch(patch, TokDelete) THEN PseudoDelete(f, path, fault)
    ELSE IF ~DirectiveMatch(patch, TokUpdate) THEN Return(f, FALSE, <<>>, FALSE, NoEffect)
         ELSE PseudoUpdate(f, path, patch, fault)

\* what 'git apply <sidecar>' does to the file system: with status 0 the target
\* holds the patched text, otherwise nothing changed
GitApply(f, path, status) ==
    IF status = 0 /\ f[path].kind # "dir"
    THEN [f EXCEPT ![path] = File(AppliedText)]
    ELSE f

\* the lines after subprocess.run returned: unlink(missing_ok=True) on both paths
AfterRun(f, patch_file, status, fault, eff) ==
    IF f[patch_file].kind = "absent"
    THEN Return(f, status = 0, <<>>, status # 0, eff)
    ELSE IF fault = "remove"
         THEN Raise("apply_git_patch", "remove", f, eff)
         ELSE Return([f EXCEPT ![patch_file] = Absent], status = 0, <<>>, status # 0,
                     [eff EXCEPT !.unlinked = @ \cup {patch_file}])

\* apply_git_patch, standard-patch branch
StandardPatch(f, path, patch, fault, status) ==
    IF path = EmptyPath
    THEN Raise("apply_git_patch", "with_suffix", f, NoEffect)
    ELSE LET patch_file == WithSuffix(path, ".patch")
             w == WriteFile("apply_git_patch", f, patch_file, patch, fault, NoEffect)
         IN  IF w.failed THEN w
             ELSE IF fault = "run" THEN Raise("apply_git_patch", "run", w.fs, w.eff)
                  ELSE AfterRun(GitApply(w.fs, path, status), patch_file, status, fault,
                                w.eff)

\* apply_git_patch(path, patch)
apply_git_patch(f, path, patch, fault, status) ==
    IF StartsWith(Strip(patch), <<TokBegin>>)
    THEN PseudoPatch(f, path, patch, fault)
    ELSE StandardPatch(f, path, patch, fault, status)

\* ------------------------------------------------------------ inputs
\* the longest target file, in lines, of the text specification
MaxFileLines == 4

\* text with a line break after every line
RECURSIVE Unlines(_)
Unlines(lines) ==
    IF lines = <<>> THEN <<>> ELSE Head(lines) \o <<LF>> \o Unlines(Tail(lines))

\* text with a line break between the lines and none after the last
Joined(lines) ==
    IF lines = <<>> THEN <<>>
    ELSE SubSeq(Unlines(lines), 1, Len(Unlines(lines)) - 1)

\* the lines target files are made of: two plain lines, a conflict start, an
\* indented conflict start and a conflict end
LineSet == {<<"a">>, <<"b">>, <<TokStart>>, <<SP, TokStart>>, <<TokStop>>}

\* the target file of the specification's example
ExampleFile ==
    Unlines(<< <<"line1">>, <<TokStart>>, <<"old content">>, <<"=======">>,
               <<"other content">>, <<TokStop>>, <<"line2">> >>)

\* target files of up to MaxFileLines lines, with and without a final line break
FileTexts ==
    LET seqs == UNION {[1..n -> LineSet] : n \in 0..MaxFileLines}
    IN  {Unlines(ls) : ls \in seqs} \cup {Joined(ls) : ls \in seqs} \cup {ExampleFile}

\* a few target files for the specification of all operations
SmallTexts ==
    {<<>>, Unlines(<< <<"a">> >>),
     Unlines(<< <<"a">>, <<TokStart>>, <<"b">>, <<TokStop>>, <<"a">> >>)}

\* a pseudo-patch: the header sentinel, then the given lines
Pseudo(lines) == Joined(<< <<TokBegin>> >> \o lines)

UpdateLine == <<TokUpdate, "t.txt">>
DeleteLine == <<TokDelete, "t.txt">>
HunkLine == <<TokHunk>>
EndLine == <<TokEnd>>
RemoveStart == <<TokMinus, TokStart>>
RemoveStop == <<TokMinus, TokStop>>
AddResolved == <<TokPlus, "resolved content">>
AddMore == <<TokPlus, "more">>

\* pseudo-patches with an update directive and a diff block
UpdatePatches ==
    { Pseudo(<<UpdateLine, HunkLine, RemoveStart, AddResolved, EndLine>>),
      Pseudo(<<UpdateLine, HunkLine, RemoveStart, <<TokMinus, "old content">>,
               AddResolved, AddMore, RemoveStop, EndLine>>),
      Pseudo(<<UpdateLine, HunkLine, AddResolved, EndLine>>),
      Pseudo(<<UpdateLine, HunkLine, RemoveStart, EndLine>>),
      Pseudo(<<UpdateLine, HunkLine, <<SP, "a">>, EndLine>>),
      Pseudo(<<UpdateLine, AddMore, HunkLine, RemoveStart, AddResolved, EndLine,
               AddMore, EndLine>>),
      Pseudo(<<UpdateLine, RemoveStart, HunkLine, <<SP, TokMinus, TokStart>>,
               AddResolved, EndLine>>),
      <<LF, SP>> \o Pseudo(<<UpdateLine, HunkLine, RemoveStart, AddMore, EndLine>>) \o <<LF>> }

\* the other patches: delete directives, unsupported and malformed pseudo-patches,
\* and standard patches
OtherPatches ==
    { Pseudo(<<DeleteLine>>),
      Pseudo(<<DeleteLine, UpdateLine, HunkLine, RemoveStart, AddResolved, EndLine>>),
      Pseudo(<<UpdateLine, HunkLine, AddResolved, DeleteLine, EndLine>>),
      Pseudo(<< <<TokDelete>>, UpdateLine, HunkLine, RemoveStart, AddResolved, EndLine>>),
      Pseudo(<< <<"*** Add File: ", "t.txt">> >>),
      Pseudo(<< <<TokUpdate>>, HunkLine, AddResolved, EndLine>>),
      Pseudo(<<UpdateLine>>),
      Pseudo(<<UpdateLine, HunkLine, AddResolved>>),
      <<"diff --git", LF, TokHunk, LF, TokPlus, "x", LF>>,
      <<"diff --git", LF>> \o Pseudo(<<DeleteLine>>) }

Patches == UpdatePatches \cup OtherPatches

\* the original and replacement texts of replace_in_file
Originals == {<<>>, <<"a">>, <<"a", LF, "a">>, <<TokStart>>, <<"zz">>}
Replacements == {<<>>, <<"b">>, <<"a", "a">>}

Faults == {"none", "open_r", "read", "open_w", "write", "remove", "run"}
Statuses == {0, 1}

\* ------------------------------------------------------------ state
VARIABLES
    fs,     \* the file system: path -> entry
    pc,     \* "idle" before the call, "done" after it
    call,   \* the call: the function, its arguments, the environment's part, and
            \* the file system it started from
    out     \* what the call did: what it returned or raised, and the paths it
            \* opened for reading, opened for writing and unlinked

vars == <<fs, pc, call, out>>

NoCall ==
    [op |-> "none", path |-> EmptyPath, patch |-> <<>>, original |-> <<>>,
     replacement |-> <<>>, fault |-> "none", status |-> 0, pre |-> <<>>]

NoOut == [retb |-> FALSE, rets |-> <<>>, raised |-> FALSE, failed |-> FALSE,
          eff |-> NoEffect]

\* the record of a call c that started from file system f
Started(c, f) == [c EXCEPT !.pre = f]

\* what a result r says the call did
Outcome(r) ==
    [retb |-> r.retb, rets |-> r.rets, raised |-> r.raised, failed |-> r.failed,
     eff |-> r.eff]

\* ------------------------------------------------------------ actions
ReadCurrentFile(P, F) ==
    \E path \in P, fault \in F :
        LET c == [NoCall EXCEPT !.op = "read_current_file", !.path = path,
                              !.fault = fault]
            r == read_current_file(fs, path, fault)
        IN  /\ pc = "idle"
            /\ pc' = "done"
            /\ call' = Started(c, fs)
            /\ fs' = r.fs
            /\ out' = Outcome(r)

ReadHeadFile(P, F, S) ==
    \E path \in P, fault \in F, status \in S :
        LET c == [NoCall EXCEPT !.op = "read_head_file", !.path = path, !.fault = fault,
                              !.status = status]
            r == read_head_file(fs, path, fault, status)
        IN  /\ pc = "idle"
            /\ pc' = "done"
            /\ call' = Started(c, fs)
            /\ fs' = r.fs
            /\ out' = Outcome(r)

DeleteFile(P, F) ==
    \E path \in P, fault \in F :
        LET c == [NoCall EXCEPT !.op = "delete_file", !.path = path, !.fault = fault]
            r == delete_file(fs, path, fault)
        IN  /\ pc = "idle"
            /\ pc' = "done"
            /\ call' = Started(c, fs)
            /\ fs' = r.fs
            /\ out' = Outcome(r)

ReplaceInFile(P, F) ==
    \E path \in P, fault \in F, original \in Originals, replacement \in Replacements :
        LET c == [NoCall EXCEPT !.op = "replace_in_file", !.path = path, !.fault = fault,
                              !.original = original, !.replacement = replacement]
            r == replace_in_file(fs, path, original, replacement, fault)
        IN  /\ pc = "idle"
            /\ pc' = "done"
            /\ call' = Started(c, fs)
            /\ fs' = r.fs
            /\ out' = Outcome(r)

ApplyGitPatch(P, PS, F, S) ==
    \E path \in P, patch \in PS, fault \in F, status \in S :
        LET c == [NoCall EXCEPT !.op = "apply_git_patch", !.path = path, !.patch = patch,
                              !.fault = fault, !.status = status]
            r == apply_git_patch(fs, path, patch, fault, status)
        IN  /\ pc = "idle"
            /\ pc' = "done"
            /\ call' = Started(c, fs)
            /\ fs' = r.fs
            /\ out' = Outcome(r)

\* ------------------------------------------------------------ specifications
\* a working tree with the given entries at t.txt and t.patch, the directory d,
\* and nothing else
Tree(txt, patch) ==
    [p \in AllPaths |->
        IF p = TxtPath THEN txt
        ELSE IF p = PatchPath THEN patch
        ELSE IF p = DirPath THEN Dir ELSE Absent]

\* every operation, on every path, under every fault, on a few working trees
Init ==
    /\ \E txt \in {Absent} \cup {File(t) : t \in SmallTexts},
          patch \in {Absent, File(<<"p", LF>>)} : fs = Tree(txt, patch)
    /\ pc = "idle"
    /\ call = NoCall
    /\ out = NoOut

Next ==
    \/ ReadCurrentFile(Paths, Faults)
    \/ ReadHeadFile(Paths, Faults, Statuses)
    \/ DeleteFile(Paths, Faults)
    \/ ReplaceInFile(Paths, Faults)
    \/ ApplyGitPatch(Paths, Patches, Faults, Statuses)

Spec == Init /\ [][Next]_vars

\* the text operations on t.txt, over every target file of up to MaxFileLines lines
InitText ==
    /\ \E t \in FileTexts : fs = Tree(File(t), Absent)
    /\ pc = "idle"
    /\ call = NoCall
    /\ out = NoOut

NextText ==
    \/ ReplaceInFile({TxtPath}, {"none", "write"})
    \/ ApplyGitPatch({TxtPath}, UpdatePatches, {"none", "write"}, {0})

SpecText == InitText /\ [][NextText]_vars

\* ------------------------------------------------------------ vocabulary of the claims
Done(op) == pc = "done" /\ call.op = op

\* the target's entry before and after the call
Before == call.pre[call.path]
After == fs[call.path]

\* no path other than the target changed
OthersUnchanged == \A q \in AllPaths : q # call.path => fs[q] = call.pre[q]

\* the patch is a pseudo-patch
IsPseudo(patch) == StartsWith(Strip(patch), <<TokBegin>>)

\* the call is a pseudo-patch update of an existing file: the header sentinel, an
\* update directive, no delete directive, a diff block
UpdateCall ==
    /\ Done("apply_git_patch")
    /\ IsPseudo(call.patch)
    /\ DirectiveMatch(call.patch, TokUpdate)
    /\ ~DirectiveMatch(call.patch, TokDelete)
    /\ DiffBlockOf(call.patch) # <<>>
    /\ Before.kind = "file"

\* the lines of the diff block
DiffLines == SplitLines(DiffBlockOf(call.patch))

\* the diff block has a line starting with '-<<<<<<<'
RemovesConflict ==
    \E k \in 1..Len(DiffLines) : StartsWith(DiffLines[k], <<TokMinus, TokStart>>)

\* the text of the diff block's addition lines, without the leading '+'
RECURSIVE Additions(_)
Additions(lines) ==
    IF lines = <<>> THEN <<>>
    ELSE IF Head(Head(lines)) = TokPlus
         THEN <<Tail(Head(lines))>> \o Additions(Tail(lines))
         ELSE Additions(Tail(lines))

AddedTexts == Additions(SelectSeq(DiffLines, LAMBDA l : l # <<>>))

\* the index of the first stop line after line i, 0 when there is none
StopAfter(lines, i) ==
    LET js == {j \in (i + 1)..Len(lines) : IsStopLine(lines[j])}
    IN  IF js = {} THEN 0 ELSE CHOOSE j \in js : \A k \in js : j <= k

\* line i opens a conflict block: a start line with a stop line after it
OpensBlock(lines, i) == IsStartLine(lines[i]) /\ StopAfter(lines, i) # 0

\* the file from line i on with every conflict block replaced by the lines plus
RECURSIVE Resolved(_, _, _)
Resolved(lines, plus, i) ==
    IF i > Len(lines) THEN <<>>
    ELSE IF OpensBlock(lines, i)
         THEN plus \o Resolved(lines, plus, StopAfter(lines, i) + 1)
         ELSE <<lines[i]>> \o Resolved(lines, plus, i + 1)

\* the lines outside every conflict block, in file order
Outside(lines) == Resolved(lines, <<>>, 1)

\* the number of conflict blocks from line i on
RECURSIVE BlockCount(_, _)
BlockCount(lines, i) ==
    IF i > Len(lines) THEN 0
    ELSE IF OpensBlock(lines, i)
         THEN 1 + BlockCount(lines, StopAfter(lines, i) + 1)
         ELSE BlockCount(lines, i + 1)

\* a start line that opens no block: it has no stop line after it
StrayStart(lines) == \E k \in 1..Len(Outside(lines)) : IsStartLine(Outside(lines)[k])

\* a is a subsequence of b
RECURSIVE IsSubseq(_, _)
IsSubseq(a, b) ==
    IF a = <<>> THEN TRUE
    ELSE IF b = <<>> THEN FALSE
         ELSE IF Head(a) = Head(b) THEN IsSubseq(Tail(a), Tail(b))
              ELSE IsSubseq(a, Tail(b))

\* the lines of the target before and after the call, without terminators
OldTexts == SplitLines(Before.text)
NewTexts == SplitLines(After.text)

\* ------------------------------------------------------------ C1
\* the update is of a file whose start lines all lie in its one conflict block, by a
\* diff block with addition lines, and no step fails
C1_Case ==
    /\ UpdateCall
    /\ call.fault = "none"
    /\ AddedTexts # <<>>
    /\ BlockCount(OldTexts, 1) = 1
    /\ ~StrayStart(OldTexts)

\* the call returned True and the file is the original with the lines from the
\* first start line through the first stop line after it replaced by the additions
C1_Replaced ==
    LET i == CHOOSE k \in 1..Len(OldTexts) :
                 /\ IsStartLine(OldTexts[k])
                 /\ \A m \in 1..(k - 1) : ~IsStartLine(OldTexts[m])
        j == StopAfter(OldTexts, i)
    IN  /\ out.retb
        /\ ~out.raised
        /\ NewTexts = SubSeq(OldTexts, 1, i - 1) \o AddedTexts
                        \o SubSeq(OldTexts, j + 1, Len(OldTexts))
        /\ OthersUnchanged

RECURSIVE Pieces(_, _)
Pieces(s, o) ==
    LET i == Find(s, o)
    IN  IF i = 0 THEN <<s>>
        ELSE <<SubSeq(s, 1, i - 1)>> \o Pieces(SubSeq(s, i + Len(o), Len(s)), o)

\* r.join(pieces)
RECURSIVE Join(_, _)
Join(pieces, r) ==
    IF Len(pieces) = 1 THEN Head(pieces)
    ELSE Head(pieces) \o r \o Join(Tail(pieces), r)

\* s with every occurrence of o replaced by r; the empty text occurs before and
\* after every symbol
AllReplaced(s, o, r) ==
    IF o = <<>>
    THEN Join(<< <<>> >> \o [k \in 1..Len(s) |-> <<s[k]>>] \o << <<>> >>, r)
    ELSE Join(Pieces(s, o), r)

\* o occurs in s
Occurs(s, o) == \E i \in 1..(Len(s) + 1) : \E j \in (i - 1)..Len(s) : SubSeq(s, i, j) = o

\* C2: replace_in_file on a file it can read: when original occurs (and the write
\* succeeds) the file holds the content with every occurrence replaced and the call
\* returns True; when original does not occur the call returns False, the file is
\* not opened for writing and the file system is what it was.
C2_ReplaceAll ==
    (Done("replace_in_file") /\ Before.kind = "file" /\ call.fault \notin {"open_r", "read"})
    => IF Occurs(Before.text, call.original)
       THEN call.fault = "none" =>
               /\ out.retb
               /\ After = File(AllReplaced(Before.text, call.original, call.replacement))
               /\ OthersUnchanged
       ELSE /\ ~out.retb
            /\ ~out.raised
            /\ out.eff.wrote = {}
            /\ fs = call.pre

\* two overlapping candidates and a replacement that holds the original: a, a, a
\* with 'a LF a' replaced by 'a a'
C2_Witness ==
    /\ Done("replace_in_file")
    /\ call.fault = "none"
    /\ Before.text = <<"a", LF, "a", LF, "a", LF>>
    /\ call.original = <<"a", LF, "a">>
    /\ call.replacement = <<"a", "a">>
    /\ out.retb
    /\ After.text = <<"a", "a", LF, "a", LF>>

\* ------------------------------------------------------------ C3
\* C3: a pseudo-patch with a delete directive, applied to an existing file, removes
\* the file and returns True whatever else the patch holds, and never opens the
\* file for reading or writing.
C3_DeleteWins ==
    (/\ Done("apply_git_patch")
     /\ IsPseudo(call.patch)
     /\ DirectiveMatch(call.patch, TokDelete)
     /\ Before.kind = "file"
     /\ call.fault # "remove")
    => /\ out.retb
       /\ ~out.raised
       /\ After = Absent
       /\ out.eff.opened = {}
       /\ out.eff.wrote = {}
       /\ OthersUnchanged

\* a patch with a delete directive, an update directive and a diff block with
\* additions deleted a file that has a conflict block
C3_Witness ==
    /\ Done("apply_git_patch")
    /\ DirectiveMatch(call.patch, TokDelete)
    /\ DirectiveMatch(call.patch, TokUpdate)
    /\ DiffBlockOf(call.patch) # <<>>
    /\ BlockCount(OldTexts, 1) = 1
    /\ out.retb
    /\ After = Absent

\* ------------------------------------------------------------ C4
\* the sidecar of the call
Sidecar == WithSuffix(call.path, ".patch")

\* the call took the standard-patch branch and wrote its sidecar
WroteSidecar ==
    /\ Done("apply_git_patch")
    /\ ~IsPseudo(call.patch)
    /\ call.path # EmptyPath
    /\ Sidecar \in out.eff.wrote

\* C4: after the standard-patch branch returns, the sidecar it wrote no longer
\* exists, whether git apply exited zero, exited non-zero, or could not be run.
C4_SidecarRemoved ==
    (WroteSidecar /\ call.fault \in {"none", "run"}) => fs[Sidecar].kind = "absent"

\* ------------------------------------------------------------ C5
\* C5: delete_file returns True and removes the path exactly when the path is an
\* existing regular file (and the unlink succeeds); for a missing path or a directory
\* it returns False and the file system is what it was.
C5_DeleteFile ==
    Done("delete_file")
    => /\ ~out.raised
       /\ out.retb => Before.kind = "file"
       /\ (Before.kind = "file" /\ call.fault # "remove")
             => out.retb /\ fs = [call.pre EXCEPT ![call.path] = Absent]
       /\ Before.kind # "file" => ~out.retb /\ fs = call.pre

\* delete_file on the directory returned False and left it there
C5_Witness ==
    /\ Done("delete_file")
    /\ call.path = DirPath
    /\ Before.kind = "dir"
    /\ ~out.retb
    /\ fs = call.pre

\* ------------------------------------------------------------ C6
\* a step of the call fails: the file cannot be opened or read, the removal or the
\* write fails, the external command cannot be run or exits non-zero
StepFails ==
    CASE call.op = "read_current_file" ->
            Before.kind # "file" \/ call.fault \in {"open_r", "read"}
      [] call.op = "read_head_file" ->
            call.fault = "run" \/ call.status # 0 \/ HeadTree[call.path].kind # "file"
      [] call.op = "delete_file" -> Before.kind = "file" /\ call.fault = "remove"
      [] call.op = "replace_in_file" ->
            Before.kind # "file" \/ call.fault \in {"open_r", "read"}
      [] call.op = "apply_git_patch" /\ ~IsPseudo(call.patch) ->
            call.path = EmptyPath \/ call.fault \in {"open_w", "write", "run", "remove"}
              \/ call.status # 0
      [] call.op = "apply_git_patch" /\ DirectiveMatch(call.patch, TokDelete) ->
            Before.kind # "file" \/ call.fault = "remove"
      [] call.op = "apply_git_patch" /\ UpdateCall ->
            call.fault \in {"open_r", "read", "open_w", "write"}
      [] OTHER -> FALSE

\* C6: no call ends in a raised exception, and a call with a failing step returns
\* the sentinel: the empty string from the reads, False from the mutations.
C6_FailSoft ==
    pc = "done"
    => /\ ~out.raised
       /\ (StepFails \/ out.failed) => (~out.retb /\ out.rets = <<>>)

\* git could not be run after the sidecar was written, and the call returned False
C6_Witness ==
    /\ WroteSidecar
    /\ call.fault = "run"
    /\ StepFails
    /\ ~out.retb
    /\ ~out.raised

\* ------------------------------------------------------------ C7
\* C7: in a successful pseudo-patch update, the lines of the target outside every
\* conflict block are in the rewritten file, unchanged and in their order; a start
\* line with no stop line after it forms no block.
C7_OutsideKept ==
    (UpdateCall /\ out.retb)
    => IsSubseq(Outside(ReadLines(Before.text)), ReadLines(After.text))

\* ------------------------------------------------------------ C8
\* C8: when the diff block has a line starting with '-<<<<<<<' and the target has
\* k >= 1 conflict blocks, the rewritten file is the target with each block replaced
\* by the whole sequence of additions, and nothing else changed.
C8_OnePerBlock ==
    (UpdateCall /\ out.retb /\ RemovesConflict /\ BlockCount(OldTexts, 1) >= 1)
    => NewTexts = Resolved(OldTexts, AddedTexts, 1)

\* ------------------------------------------------------------ C9
\* C9: when the diff block has no line starting with '-<<<<<<<', the update returns
\* True and rewrites the target with exactly what it read, whatever conflict blocks
\* the file and additions the diff block hold.
C9_Untouched ==
    (UpdateCall /\ call.fault = "none" /\ ~RemovesConflict)
    => /\ out.retb
       /\ ~out.raised
       /\ out.eff.wrote = {call.path}
       /\ After = Before
       /\ OthersUnchanged

\* a file with a conflict block was rewritten as it was by a diff block that has an
\* addition and a '-<<<<<<<' only after a leading space
C9_Witness ==
    /\ UpdateCall
    /\ call.fault = "none"
    /\ ~RemovesConflict
    /\ \E k \in 1..Len(DiffLines) : Contains(DiffLines[k], <<TokMinus, TokStart>>)
    /\ AddedTexts # <<>>
    /\ BlockCount(OldTexts, 1) = 2
    /\ out.retb
    /\ After = Before

\* ------------------------------------------------------------ C10
\* C10: in the standard-patch branch the sidecar is a path other than the target,
\* and the script itself neither writes nor unlinks the target.
C10_TargetUntouched ==
    (Done("apply_git_patch") /\ ~IsPseudo(call.patch) /\ call.path # EmptyPath)
    => /\ Sidecar # call.path
       /\ call.path \notin out.eff.wrote
       /\ call.path \notin out.eff.unlinked

====
